---- MODULE Spec2Model ----
(***************************************************************************)
(* A model of src/R6/bone.client.ts: the Bin disposer, the ESP overlay     *)
(* (construction with yielding body-part lookups, per-frame render,        *)
(* destruction) and the top-level event wiring.                            *)
(*                                                                         *)
(* Lengths are integers in tenths of a stud, so that the margins 0.4, 0.3  *)
(* and 0.2 of constructPoints stay exact.                                  *)
(***************************************************************************)
EXTENDS Integers, Sequences, FiniteSets, TLC

(***************************************************************************)
(* Bounds of the model.                                                    *)
(***************************************************************************)
\* Bin.add calls made on the stand-alone Bin of SpecBin.
MaxAdds == 3

\* Players other than the viewer (players 1..MaxPlayers; LocalPlayer is 0).
MaxPlayers == 2

\* Characters that exist or spawn during a run.
MaxEntities == 2

(***************************************************************************)
(* Bin (lines 13-69).                                                      *)
(*                                                                         *)
(* The Bin is a singly linked list with a head and a tail pointer. Nodes   *)
(* before this.head are unreachable, and this.tail is always the last node *)
(* of the chain, so the list is modelled by the sequence of the items from *)
(* this.head to this.tail: this.head === undefined iff the sequence is     *)
(* empty.                                                                  *)
(*                                                                         *)
(* An item is a record [id, type, has_destroy, has_Destroy, fails]:        *)
(*   type        what typeIs() answers: "function", "RBXScriptConnection", *)
(*               "thread", or "table"/"Instance" for the object kinds;     *)
(*   has_destroy, has_Destroy   the members the `in` tests of lines 49 and *)
(*               51 find (an Instance has both: destroy is the deprecated  *)
(*               alias of Destroy);                                        *)
(*   fails       whether the item's release action raises.                 *)
(***************************************************************************)
ItemShapes ==
    { [type |-> "function",            has_destroy |-> FALSE, has_Destroy |-> FALSE],
      [type |-> "RBXScriptConnection", has_destroy |-> FALSE, has_Destroy |-> FALSE],
      [type |-> "thread",              has_destroy |-> FALSE, has_Destroy |-> FALSE],
      [type |-> "table",               has_destroy |-> TRUE,  has_Destroy |-> FALSE],
      [type |-> "table",               has_destroy |-> FALSE, has_Destroy |-> TRUE],
      [type |-> "Instance",            has_destroy |-> TRUE,  has_Destroy |-> TRUE] }

MkItem(id, shape, fails) ==
    [id |-> id, type |-> shape.type, has_destroy |-> shape.has_destroy,
     has_Destroy |-> shape.has_Destroy, fails |-> fails]

\* Bin.add: append a node at the tail; head ??= node.
BinAdd(b, item) == Append(b, item)

\* The if/else-if chain of Bin.destroy: the release action run for an item.
ReleaseAction(item) ==
    IF item.type = "function" THEN "call"
    ELSE IF item.type = "RBXScriptConnection" THEN "Disconnect"
    ELSE IF item.type = "thread" THEN "task.cancel"
    ELSE IF item.has_destroy THEN "destroy"
    ELSE IF item.has_Destroy THEN "Destroy"
    ELSE "none"

\* One release as the loop body performs it, for the log.
Released(item) == [id |-> item.id, action |-> ReleaseAction(item), raised |-> item.fails]

\* The while loop of Bin.destroy, from the node this.head. The release action
\* is invoked before this.head advances (lines 54-55 follow the call), and the
\* loop has no handler: an action that raises leaves destroy() at once, with
\* this.head still on the raising node.
RECURSIVE BinDestroyFrom(_, _)
BinDestroyFrom(b, log) ==
    IF b = <<>> THEN [bin |-> <<>>, log |-> log, raised |-> FALSE]
    ELSE IF Head(b).fails
         THEN [bin |-> b, log |-> Append(log, Released(Head(b))), raised |-> TRUE]
         ELSE BinDestroyFrom(Tail(b), Append(log, Released(Head(b))))

\* Bin.destroy without line 55: this.head is never advanced.
BinDestroyKeepsHead(b) == [BinDestroyFrom(b, <<>>) EXCEPT !.bin = b]

\* Bin.destroy(): [bin: the Bin afterwards, log: the release actions invoked,
\* in order, raised: whether the call ended by an error].
BinDestroy(b) == BinDestroyFrom(b, <<>>)

\* Bin.isEmpty().
BinIsEmpty(b) == b = <<>>

(***************************************************************************)
(* The Bin with callback items that call back into it. Here the linked     *)
(* list is kept as it is in the source: `nodes` are all the nodes ever     *)
(* added, in order (add() links each new node behind this.tail, which is   *)
(* never reset, so node k's next is node k + 1 once that exists), and      *)
(* `head` is the index of this.head, 0 for undefined. An item is a         *)
(* callback [id, reenter]: on its first invocation it calls destroy() or   *)
(* add() on the Bin that holds it ("destroy", "add"), or it does not call  *)
(* back ("none"). `count` are the invocations per item (saturating),       *)
(* `log` the invocations of the latest outer destroy(), `fired` the items  *)
(* that have called back.                                                  *)
(***************************************************************************)
Reentries == {"none", "destroy", "add"}

ReentrantNew ==
    [nodes |-> <<>>, head |-> 0, count |-> <<>>, log |-> <<>>, fired |-> {}, op |-> "new"]

\* Bin.add of a callback (lines 24-30): head ??= node; tail.next = node.
ReentrantAdd(b, reenter) ==
    [b EXCEPT !.nodes = Append(@, [id |-> Len(@) + 1, reenter |-> reenter]),
              !.head = IF @ = 0 THEN Len(b.nodes) + 1 ELSE @,
              !.count = Append(@, 0)]

\* head.next (line 54), read when the release action has returned.
NodeNext(b, h) == IF h < Len(b.nodes) THEN h + 1 ELSE 0

RECURSIVE ReentrantLoop(_, _)
RECURSIVE ReentrantCall(_, _)

\* Bin.destroy() (line 40): the local `head` starts at this.head.
ReentrantDestroy(b) == ReentrantLoop(b, b.head)

\* The while loop (lines 41-56) with the local `head` at node h: the item is
\* called, then `head = head.next; this.head = head`.
ReentrantLoop(b, h) ==
    IF h = 0 THEN b
    ELSE LET after == ReentrantCall(b, h)
             next == NodeNext(after, h)
         IN  ReentrantLoop([after EXCEPT !.head = next], next)

\* item() (line 44) for the callback of node h; this.head is still on h.
ReentrantCall(b, h) ==
    LET item == b.nodes[h]
        called == [b EXCEPT !.count[item.id] = IF @ >= 2 THEN 2 ELSE @ + 1,
                            !.log = Append(@, item.id)]
        first == [called EXCEPT !.fired = @ \cup {item.id}]
    IN  IF item.reenter = "none" \/ item.id \in b.fired THEN called
        ELSE IF item.reenter = "destroy" THEN ReentrantDestroy(first)
        ELSE ReentrantAdd(first, "none")

(***************************************************************************)
(* Vectors and the camera.                                                 *)
(*                                                                         *)
(* World lengths are in tenths of a stud. Screen coordinates are in        *)
(* twentieths, so that displacement.div(2) in updateLineFromPoints is      *)
(* exact.                                                                  *)
(***************************************************************************)
VAdd(a, b) == <<a[1] + b[1], a[2] + b[2], a[3] + b[3]>>
VSub(a, b) == <<a[1] - b[1], a[2] - b[2], a[3] - b[3]>>
Dot(a, b) == a[1] * b[1] + a[2] * b[2] + a[3] * b[3]

\* The cameras Workspace.CurrentCamera takes: position and the unit axes of
\* the view (look: into the screen, right, up).
Cameras ==
    [ front |-> [pos |-> <<0, 0, -100>>, look |-> <<0, 0, 1>>,  right |-> <<1, 0, 0>>,  up |-> <<0, 1, 0>>],
      back  |-> [pos |-> <<0, 0, -100>>, look |-> <<0, 0, -1>>, right |-> <<-1, 0, 0>>, up |-> <<0, 1, 0>>],
      side  |-> [pos |-> <<-10, 0, 0>>,  look |-> <<1, 0, 0>>,  right |-> <<0, 0, -1>>, up |-> <<0, 1, 0>>],
      above |-> [pos |-> <<0, 20, 0>>,   look |-> <<0, -1, 0>>, right |-> <<1, 0, 0>>,  up |-> <<0, 0, -1>>] ]

CameraNames == DOMAIN Cameras

\* Camera:WorldToViewportPoint(p): <<X, Y, Z>>, Z the depth of p along the
\* camera's look axis (negative behind the camera). X and Y stand for the
\* host's screen projection: the offsets along the camera's right and up axes.
WorldToViewportPoint(cam, p) ==
    LET v == VSub(p, Cameras[cam].pos) IN
    <<2 * Dot(Cameras[cam].right, v), 2 * Dot(Cameras[cam].up, v), Dot(Cameras[cam].look, v)>>

\* new Vector2(P.X, P.Y)
Vector2(P) == <<P[1], P[2]>>

(***************************************************************************)
(* updateLineFromPoints (lines 91-100).                                    *)
(***************************************************************************)
\* floor(sqrt(n)), by bisection.
RECURSIVE SqrtBetween(_, _, _)
SqrtBetween(n, lo, hi) ==
    IF lo >= hi THEN lo
    ELSE LET mid == (lo + hi + 1) \div 2 IN
         IF mid * mid <= n THEN SqrtBetween(n, mid, hi) ELSE SqrtBetween(n, lo, mid - 1)

\* Vector2.Magnitude, to the unit below.
Magnitude(d) == SqrtBetween(d[1] * d[1] + d[2] * d[2], 0, 46340)

\* tan(k degrees) * 10^4 for k = 0..89, rounded.
TanTable ==
    << 0, 175, 349, 524, 699, 875, 1051, 1228, 1405, 1584,
       1763, 1944, 2126, 2309, 2493, 2679, 2867, 3057, 3249, 3443,
       3640, 3839, 4040, 4245, 4452, 4663, 4877, 5095, 5317, 5543,
       5774, 6009, 6249, 6494, 6745, 7002, 7265, 7536, 7813, 8098,
       8391, 8693, 9004, 9325, 9657, 10000, 10355, 10724, 11106, 11504,
       11918, 12349, 12799, 13270, 13764, 14281, 14826, 15399, 16003, 16643,
       17321, 18040, 18807, 19626, 20503, 21445, 22460, 23559, 24751, 26051,
       27475, 29042, 30777, 32709, 34874, 37321, 40108, 43315, 47046, 51446,
       56713, 63138, 71154, 81443, 95144, 114301, 143007, 190811, 286363, 572900 >>

\* The whole degrees d in lo..hi with tan(d) <= y/x (x > 0, y >= 0), by bisection.
RECURSIVE DegBetween(_, _, _, _)
DegBetween(y, x, lo, hi) ==
    IF lo >= hi THEN lo
    ELSE LET mid == (lo + hi + 1) \div 2 IN
         IF TanTable[mid + 1] * x <= y * 10000
         THEN DegBetween(y, x, mid, hi) ELSE DegBetween(y, x, lo, mid - 1)

\* atan2 in the first quadrant, in whole degrees (0..90).
AtanDeg(y, x) == IF x = 0 THEN (IF y = 0 THEN 0 ELSE 90) ELSE DegBetween(y, x, 0, 89)

Abs(n) == IF n < 0 THEN -n ELSE n

\* math.deg(math.atan2(y, x)), truncated to whole degrees, in -180..180. The
\* angle is a whole number of degrees only on the axes and the diagonals.
Atan2Deg(y, x) ==
    LET a == AtanDeg(Abs(y), Abs(x))
        whole == y = 0 \/ x = 0 \/ Abs(y) = Abs(x)
        m == IF x >= 0 THEN a ELSE IF whole THEN 180 - a ELSE 179 - a
    IN  IF y >= 0 THEN m ELSE -m

\* updateLineFromPoints with the arguments of math.atan2 exchanged.
updateLineAtanSwapped(line, from, to) ==
    LET displacement == <<to[1] - from[1], to[2] - from[2]>>
        distance == Magnitude(displacement)
        midpoint == <<from[1] + displacement[1] \div 2, from[2] + displacement[2] \div 2>>
        angle == Atan2Deg(displacement[1], displacement[2])
    IN  [line EXCEPT !.Position = midpoint,
                     !.Size = <<distance, line.Size[2]>>,
                     !.Rotation = angle]

\* updateLineFromPoints(line, from, to): Position, Size.X and Rotation of the
\* Frame are set; Size.Y (the thickness) is kept.
updateLineFromPoints(line, from, to) ==
    LET displacement == <<to[1] - from[1], to[2] - from[2]>>
        distance == Magnitude(displacement)
        midpoint == <<from[1] + displacement[1] \div 2, from[2] + displacement[2] \div 2>>
        angle == Atan2Deg(displacement[2], displacement[1])
    IN  [line EXCEPT !.Position = midpoint,
                     !.Size = <<distance, line.Size[2]>>,
                     !.Rotation = angle]

(***************************************************************************)
(* The world the script observes: characters (entities) and their parts.   *)
(*                                                                         *)
(* An entity is a record                                                   *)
(*   [owner, inWorld, parts, pos, pose, Health, MaxHealth]:                *)
(* the player it belongs to, whether its Parent is still in the world, the *)
(* names of the children it has so far, where it stands, how its limbs are *)
(* held, and its Humanoid's health.                                        *)
(***************************************************************************)
PartNames ==
    {"Humanoid", "Head", "HumanoidRootPart", "Torso",
     "Right Arm", "Right Leg", "Left Arm", "Left Leg"}

\* Part.Size of the parts of an R6 character.
PartSize(part) ==
    CASE part = "Head" -> <<20, 10, 10>>
      [] part \in {"Torso", "HumanoidRootPart"} -> <<20, 20, 10>>
      [] OTHER -> <<10, 20, 10>>

\* Where the parts of an R6 character sit around its root.
Layout(part) ==
    CASE part = "Head" -> <<0, 15, 0>>
      [] part = "Right Arm" -> <<15, 0, 0>>
      [] part = "Left Arm" -> <<-15, 0, 0>>
      [] part = "Right Leg" -> <<5, -20, 0>>
      [] part = "Left Leg" -> <<-5, -20, 0>>
      [] OTHER -> <<0, 0, 0>>

\* How an animation displaces the parts: at rest, or with the right arm and
\* the left leg swung back.
Poses == {"rest", "swing"}

PoseOffset(pose, part) ==
    IF pose = "swing" /\ part \in {"Right Arm", "Left Leg"} THEN <<0, 0, -20>> ELSE <<0, 0, 0>>

\* Part.Position in the world.
PartPosition(ent, part) == VAdd(VAdd(ent.pos, Layout(part)), PoseOffset(ent.pose, part))

(***************************************************************************)
(* ESP (lines 132-493).                                                    *)
(*                                                                         *)
(* An overlay (an ESP object) is a record of the fields of the class, plus *)
(* the position of its constructor:                                        *)
(*   pc       the body-part lookup the constructor is at (an index of      *)
(*            Lookups), or Constructed once it has returned;               *)
(*   waited   how long the current lookup has been suspended;              *)
(*   thread   the thread running the constructor: "main" (the start-up     *)
(*            loop) or "handler" (a signal handler's own thread);          *)
(*   connected  whether AncestryChanged is connected (line 173).           *)
(* Fonts, colours and text sizes are left out.                             *)
(***************************************************************************)
\* WaitForChild("HumanoidRootPart", 5): the only lookup with a timeout.
DiscoveryTimeout == 5

\* The body-part lookups of the constructor, constructPoints and
\* constructBones, in program order: the child's name, the source line, and
\* the timeout (0: none).
Lookups ==
    << [name |-> "Humanoid",         line |-> 153, timeout |-> 0],
       [name |-> "Head",             line |-> 189, timeout |-> 0],
       [name |-> "HumanoidRootPart", line |-> 190, timeout |-> DiscoveryTimeout],
       [name |-> "Torso",            line |-> 190, timeout |-> 0],
       [name |-> "Right Arm",        line |-> 191, timeout |-> 0],
       [name |-> "Right Leg",        line |-> 192, timeout |-> 0],
       [name |-> "Head",             line |-> 220, timeout |-> 0],
       [name |-> "Torso",            line |-> 221, timeout |-> 0],
       [name |-> "Right Arm",        line |-> 222, timeout |-> 0],
       [name |-> "Right Leg",        line |-> 223, timeout |-> 0],
       [name |-> "Left Arm",         line |-> 224, timeout |-> 0],
       [name |-> "Left Leg",         line |-> 225, timeout |-> 0] >>

Constructed == Len(Lookups) + 1

PointNames == {"C", "T", "B", "BL", "BR", "TL", "TR"}

BoneNames ==
    {"face", "neck", "waist", "right_shoulder", "right_hand", "right_hip", "right_foot",
     "left_shoulder", "left_hand", "left_hip", "left_foot"}

\* new Instance("Attachment")
NewAttachment == [Parent |-> "nil", Position |-> <<0, 0, 0>>]

\* new Instance("Frame"): visible, unparented.
NewFrame ==
    [Visible |-> TRUE, Position |-> <<0, 0>>, Size |-> <<0, 0>>, Rotation |-> 0,
     Parent |-> "nil", destroyed |-> 0]

\* The text of the stats line, "[distance] [health/maxHealth] [percent%]", as
\* the four numbers it is formatted from.
StatsText(distance, health, maxHealth, percent) ==
    [distance |-> distance, health |-> health, maxHealth |-> maxHealth, percent |-> percent]

\* The field initialisers of the class (lines 135-147) and `this.instance =
\* entity` (line 151).
NewOverlay(entity, thread) ==
    [instance |-> entity,
     humanoid |-> 0,
     root |-> "nil",
     points |-> [n \in PointNames |-> NewAttachment],
     bones |-> [n \in BoneNames |-> NewAttachment],
     hasBones |-> FALSE,
     box_lines |-> <<>>,
     bone_lines |-> <<>>,
     container |-> NewFrame,
     dataText |-> StatsText(0, 0, 0, 0),
     bin |-> <<>>,
     connected |-> FALSE,
     pc |-> 1,
     waited |-> 0,
     thread |-> thread]

\* constructPoints, after its lookups (lines 194-214).
constructPoints(o) ==
    LET root == PartSize(o.root)
        head == PartSize("Head")
        right_arm == PartSize("Right Arm")
        right_leg == PartSize("Right Leg")
        U == root[2] \div 2 + head[2] + 4
        D == (-root[2]) \div 2 - right_leg[2] - 3
        LR == root[1] \div 2 + right_arm[1] + 2
    IN  [C  |-> [Parent |-> o.root, Position |-> <<0, 0, 0>>],
         T  |-> [Parent |-> "C",    Position |-> <<0, U, 0>>],
         B  |-> [Parent |-> "C",    Position |-> <<0, D, 0>>],
         TL |-> [Parent |-> "T",    Position |-> <<-LR, 0, 0>>],
         BL |-> [Parent |-> "B",    Position |-> <<-LR, 0, 0>>],
         TR |-> [Parent |-> "T",    Position |-> <<LR, 0, 0>>],
         BR |-> [Parent |-> "B",    Position |-> <<LR, 0, 0>>]]

\* constructBones, after its lookups (lines 227-287).
constructBones ==
    LET head_y == PartSize("Head")[2] \div 2
        torso_y == PartSize("Torso")[2] \div 2
        arm_y == PartSize("Right Arm")[2] \div 2
        leg_y == PartSize("Right Leg")[2] \div 2
    IN  [face           |-> [Parent |-> "Head",      Position |-> <<0, head_y, 0>>],
         neck           |-> [Parent |-> "Torso",     Position |-> <<0, torso_y, 0>>],
         waist          |-> [Parent |-> "Torso",     Position |-> <<0, -torso_y, 0>>],
         right_shoulder |-> [Parent |-> "Right Arm", Position |-> <<0, arm_y, 0>>],
         right_hand     |-> [Parent |-> "Right Arm", Position |-> <<0, -arm_y, 0>>],
         right_hip      |-> [Parent |-> "Right Leg", Position |-> <<0, leg_y, 0>>],
         right_foot     |-> [Parent |-> "Right Leg", Position |-> <<0, -leg_y, 0>>],
         left_shoulder  |-> [Parent |-> "Left Arm",  Position |-> <<0, arm_y, 0>>],
         left_hand      |-> [Parent |-> "Left Arm",  Position |-> <<0, -arm_y, 0>>],
         left_hip       |-> [Parent |-> "Left Leg",  Position |-> <<0, leg_y, 0>>],
         left_foot      |-> [Parent |-> "Left Leg",  Position |-> <<0, -leg_y, 0>>]]

\* The bin items of an overlay: its Frames (Instances) and the callback of
\* line 172.
InstanceItem(id) ==
    [id |-> id, type |-> "Instance", has_destroy |-> TRUE, has_Destroy |-> TRUE, fails |-> FALSE]

DeleteItem ==
    [id |-> <<"instances.delete", 0>>, type |-> "function",
     has_destroy |-> FALSE, has_Destroy |-> FALSE, fails |-> FALSE]

\* A line Frame as constructLines makes it (lines 295-299).
NewLine == [NewFrame EXCEPT !.Visible = FALSE, !.Parent = "ScreenGui"]

\* constructLines (lines 290-316): 4 box lines, then 10 bone lines, each
\* added to the bin as it is made.
constructLines(o) ==
    [o EXCEPT !.box_lines = [i \in 1..4 |-> NewLine],
              !.bone_lines = [i \in 1..10 |-> NewLine],
              !.bin = o.bin \o [i \in 1..4 |-> InstanceItem(<<"box_lines", i>>)]
                            \o [i \in 1..10 |-> InstanceItem(<<"bone_lines", i>>)]]

\* setLabels (lines 318-349).
setLabels(o) ==
    [o EXCEPT !.container = [o.container EXCEPT !.Visible = FALSE, !.Parent = "ScreenGui"],
              !.dataText = StatsText(85, 100, 100, 100),
              !.bin = BinAdd(o.bin, InstanceItem(<<"container", 0>>))]

\* listlayout.AbsoluteContentSize.Y: two lines of 14 with a padding of -4.
AbsoluteContentSizeY == 14 + 14 - 4

\* update (lines 359-376): the thickness of the lines and the size of the label.
update(o) ==
    [o EXCEPT !.box_lines = [i \in 1..4 |-> [o.box_lines[i] EXCEPT !.Size = <<1, 2>>]],
              !.bone_lines = [i \in 1..10 |-> [o.bone_lines[i] EXCEPT !.Size = <<1, 1>>]],
              !.container = [o.container EXCEPT !.Size = <<300, AbsoluteContentSizeY>>]]

\* setVisible without line 354: the label container is left as it is.
setVisibleLinesOnly(o, visible) ==
    [o EXCEPT !.box_lines = [i \in 1..4 |-> [o.box_lines[i] EXCEPT !.Visible = visible]],
              !.bone_lines = [i \in 1..10 |-> [o.bone_lines[i] EXCEPT !.Visible = visible]]]

\* setVisible (lines 351-357).
setVisible(o, visible) ==
    [o EXCEPT !.container = [o.container EXCEPT !.Visible = visible],
              !.box_lines = [i \in 1..4 |-> [o.box_lines[i] EXCEPT !.Visible = visible]],
              !.bone_lines = [i \in 1..10 |-> [o.bone_lines[i] EXCEPT !.Visible = visible]]]

\* Attachment.WorldPosition: the attachment's Position carried through the
\* chain of its parents (other attachments, then a part of the entity).
RECURSIVE AttachmentWorld(_, _, _)
AttachmentWorld(o, ent, att) ==
    IF att.Parent \in PartNames THEN VAdd(PartPosition(ent, att.Parent), att.Position)
    ELSE IF att.Parent \in PointNames
         THEN VAdd(AttachmentWorld(o, ent, o.points[att.Parent]), att.Position)
         ELSE att.Position

WorldPosition(o, ent, n) ==
    AttachmentWorld(o, ent, IF n \in PointNames THEN o.points[n] ELSE o.bones[n])

\* The rig points render() projects, in the order of lines 398-432. B is not
\* among them: render() does not destructure it (line 382).
ProjectedPoints ==
    <<"C", "T", "BL", "BR", "TL", "TR",
      "face", "neck", "waist", "right_shoulder", "right_hand", "right_hip", "right_foot",
      "left_shoulder", "left_hand", "left_hip", "left_foot">>

\* Box lines joining opposite corners: a bow tie, not a cycle round the box.
BoxEdgesCrossed == << <<"TL", "TR">>, <<"TR", "BL">>, <<"BL", "BR">>, <<"BR", "TL">> >>

\* Bone lines with the left arm hung from the waist.
BoneEdgesOffNeck ==
    << <<"face", "neck">>, <<"neck", "waist">>,
       <<"neck", "right_shoulder">>, <<"right_shoulder", "right_hand">>,
       <<"waist", "right_hip">>, <<"right_hip", "right_foot">>,
       <<"waist", "left_shoulder">>, <<"left_shoulder", "left_hand">>,
       <<"waist", "left_hip">>, <<"left_hip", "left_foot">> >>

\* The pairs of points the lines are drawn between (lines 435-478).
BoxEdges == << <<"TL", "TR">>, <<"TR", "BR">>, <<"BR", "BL">>, <<"BL", "TL">> >>

BoneEdges ==
    << <<"face", "neck">>, <<"neck", "waist">>,
       <<"neck", "right_shoulder">>, <<"right_shoulder", "right_hand">>,
       <<"waist", "right_hip">>, <<"right_hip", "right_foot">>,
       <<"neck", "left_shoulder">>, <<"left_shoulder", "left_hand">>,
       <<"waist", "left_hip">>, <<"left_hip", "left_foot">> >>

\* BehindCamera without the early returns of the skeleton joints (lines 411-432).
BehindCameraBoxOnly(o, ent, cam) ==
    \E i \in 1..6 :
        WorldToViewportPoint(cam, WorldPosition(o, ent, ProjectedPoints[i]))[3] < 0

\* The early returns of lines 399-432: some projected point lies behind the camera.
BehindCamera(o, ent, cam) ==
    \E i \in DOMAIN ProjectedPoints :
        WorldToViewportPoint(cam, WorldPosition(o, ent, ProjectedPoints[i]))[3] < 0

(***************************************************************************)
(* Luau numbers are IEEE 754 doubles: 53 significant bits, every operation *)
(* rounded to nearest, ties to even. A positive double is a record         *)
(* [m, e] of value m * 2^e, m < 2^53. The natural m is a sequence of limbs *)
(* in base 2^15, least significant first, without leading zero limbs.      *)
(***************************************************************************)
MantissaBits == 53

LimbBits == 15

Base == 2 ^ LimbBits

\* The number of bits of a limb v: 0 for 0.
LimbLength(v) == CHOOSE b \in 0..LimbBits : v < 2 ^ b /\ (b > 0 => v >= 2 ^ (b - 1))

\* x without its leading zero limbs.
RECURSIVE Normal(_)
Normal(x) ==
    IF x # <<>> /\ x[Len(x)] = 0 THEN Normal(SubSeq(x, 1, Len(x) - 1)) ELSE x

\* The number of bits of x.
BitLength(x) ==
    LET n == Normal(x) IN
    IF n = <<>> THEN 0 ELSE LimbBits * (Len(n) - 1) + LimbLength(n[Len(n)])

\* Bit p of x (bit 0 is the least significant).
Bit(x, p) ==
    IF p \div LimbBits + 1 > Len(x) THEN 0
    ELSE (x[p \div LimbBits + 1] \div 2 ^ (p % LimbBits)) % 2

\* floor(x / 2^k)
ShiftRight(x, k) ==
    LET a == k \div LimbBits
        b == k % LimbBits
        limb(i) == IF i > Len(x) THEN 0 ELSE x[i]
    IN  Normal([i \in 1..Len(x) |->
                  limb(i + a) \div 2 ^ b + (limb(i + a + 1) % 2 ^ b) * 2 ^ (LimbBits - b)])

\* x * c + carry, for naturals c and carry below 2^15.
RECURSIVE LimbsTimes(_, _, _)
LimbsTimes(x, c, carry) ==
    IF x = <<>> THEN (IF carry = 0 THEN <<>> ELSE <<carry>>)
    ELSE LET v == x[1] * c + carry IN
         <<v % Base>> \o LimbsTimes(Tail(x), c, v \div Base)

\* x + 1
RECURSIVE LimbsInc(_)
LimbsInc(x) ==
    IF x = <<>> THEN <<1>>
    ELSE IF x[1] + 1 < Base THEN <<x[1] + 1>> \o Tail(x)
    ELSE <<0>> \o LimbsInc(Tail(x))

\* The value of a natural of at most two limbs.
LimbsValue(x) ==
    IF x = <<>> THEN 0 ELSE IF Len(x) = 1 THEN x[1] ELSE x[1] + Base * x[2]

\* The double nearest to (x + rest) * 2^e, where rest, in [0, 1), is zero
\* iff ~sticky.
RoundToDouble(x, e, sticky) ==
    LET drop == BitLength(x) - MantissaBits IN
    IF drop <= 0 THEN [m |-> Normal(x), e |-> e]
    ELSE LET kept == ShiftRight(x, drop)
             guard == Bit(x, drop - 1)
             below == sticky \/ \E p \in 0..(drop - 2) : Bit(x, p) = 1
             up == guard = 1 /\ (below \/ Bit(kept, 0) = 1)
             m == IF up THEN LimbsInc(kept) ELSE kept
         IN  IF BitLength(m) > MantissaBits
             THEN [m |-> ShiftRight(m, 1), e |-> e + drop + 1]
             ELSE [m |-> m, e |-> e + drop]

\* The long division r / d to k limbs after the point: the limbs, and the
\* remainder left.
RECURSIVE Fraction(_, _, _)
Fraction(r, d, k) ==
    IF k = 0 THEN [limbs |-> <<>>, r |-> r]
    ELSE LET rest == Fraction((r * Base) % d, d, k - 1) IN
         [limbs |-> Append(rest.limbs, (r * Base) \div d), r |-> rest.r]

\* The limbs the quotient is carried to before it is rounded.
FractionLimbs == 5

\* n / d for naturals 0 < n < 2^15 and 0 < d < 2^15 (both exact as doubles).
DoubleDiv(n, d) ==
    LET f == Fraction(n % d, d, FractionLimbs) IN
    RoundToDouble(Append(f.limbs, n \div d), -(LimbBits * FractionLimbs), f.r # 0)

\* x * c for a natural 0 < c < 2^15.
DoubleTimes(x, c) == RoundToDouble(LimbsTimes(x.m, c, 0), x.e, FALSE)

\* math.floor(x) for a double x < 2^30.
DoubleFloor(x) ==
    IF x.e >= 0 THEN LimbsValue(x.m) * 2 ^ x.e ELSE LimbsValue(ShiftRight(x.m, -x.e))

\* math.floor((health / maxHealth) * 100) for naturals health and maxHealth;
\* -1 stands for the nan/inf of a division by zero.
Percent(health, maxHealth) ==
    IF maxHealth = 0 THEN -1
    ELSE IF health = 0 THEN 0
    ELSE DoubleFloor(DoubleTimes(DoubleDiv(health, maxHealth), 100))

\* The updates of lines 434-487, once every projected depth is >= 0.
renderVisible(o, ent, cam) ==
    LET projected == [n \in {ProjectedPoints[i] : i \in DOMAIN ProjectedPoints} |->
                        WorldToViewportPoint(cam, WorldPosition(o, ent, n))]
        P(n) == projected[n]
        drawn ==
            [o EXCEPT
               !.box_lines = [i \in 1..4 |->
                   updateLineFromPoints(o.box_lines[i], Vector2(P(BoxEdges[i][1])),
                                        Vector2(P(BoxEdges[i][2])))],
               !.bone_lines = [i \in 1..10 |->
                   updateLineFromPoints(o.bone_lines[i], Vector2(P(BoneEdges[i][1])),
                                        Vector2(P(BoneEdges[i][2])))],
               !.container = [o.container EXCEPT
                   !.Position = <<P("T")[1], P("T")[2] - AbsoluteContentSizeY>>],
               !.dataText = StatsText(P("C")[3] \div 10, ent.Health, ent.MaxHealth,
                                      Percent(ent.Health, ent.MaxHealth))]
    IN  setVisible(drawn, TRUE)

\* render() releasing what the overlay owns when the frame is culled.
renderDroppingBin(o, ent, cam) ==
    IF BehindCamera(o, ent, cam)
    THEN [setVisible(o, FALSE) EXCEPT !.bin = <<>>]
    ELSE renderVisible(o, ent, cam)

\* render (lines 378-488).
render(o, ent, cam) ==
    IF BehindCamera(o, ent, cam) THEN setVisible(o, FALSE) ELSE renderVisible(o, ent, cam)

\* Instance:destroy() on a Frame, n times.
FrameDestroy(f, n) ==
    IF n = 0 THEN f ELSE [f EXCEPT !.Parent = "nil", !.destroyed = IF @ + n > 2 THEN 2 ELSE @ + n]

\* The number of destroy() calls a run of Bin.destroy made on the Frame `id`.
Destroys(log, id) ==
    Cardinality({k \in DOMAIN log : log[k].id = id /\ log[k].action \in {"destroy", "Destroy"}})

\* A destroy() whose callback leaves the entry in ESP.instances.
DeleteNeverCalled(log) == FALSE

\* Whether a run of Bin.destroy called the callback of line 172.
DeleteCalled(log) ==
    \E k \in DOMAIN log : log[k].id = DeleteItem.id /\ log[k].action = "call"

\* ESP.destroy (lines 490-492) on the overlay itself: the bin is destroyed
\* and the Frames it held are destroyed with it.
destroy(o) ==
    LET r == BinDestroy(o.bin) IN
    [o EXCEPT
       !.bin = r.bin,
       !.box_lines = [i \in DOMAIN o.box_lines |->
                         FrameDestroy(o.box_lines[i], Destroys(r.log, <<"box_lines", i>>))],
       !.bone_lines = [i \in DOMAIN o.bone_lines |->
                         FrameDestroy(o.bone_lines[i], Destroys(r.log, <<"bone_lines", i>>))],
       !.container = FrameDestroy(o.container, Destroys(r.log, <<"container", 0>>))]

(***************************************************************************)
(* The constructor as a thread: it runs until a WaitForChild finds no      *)
(* child and yields there.                                                 *)
(***************************************************************************)
\* What follows the lookup at o.pc, which found the child or (with a timeout)
\* gave up.
AfterLookup(o, found) ==
    LET next == [o EXCEPT !.pc = @ + 1, !.waited = 0] IN
    CASE o.pc = 1 -> [next EXCEPT !.humanoid = o.instance]
      [] o.pc = 3 -> IF found THEN [next EXCEPT !.root = "HumanoidRootPart", !.pc = 5] ELSE next
      [] o.pc = 4 -> [next EXCEPT !.root = "Torso"]
      [] o.pc = 6 -> [next EXCEPT !.points = constructPoints(next)]
      [] o.pc = 12 ->
            \* lines 158-176, after the last lookup of constructBones
            LET rigged == [next EXCEPT !.bones = constructBones, !.hasBones = TRUE]
                lined == setLabels(constructLines(rigged))
                initialized == [lined EXCEPT !.bin = BinAdd(lined.bin, DeleteItem),
                                             !.connected = TRUE]
            IN  update(initialized)
      [] OTHER -> next

\* The constructor from o.pc on, given the children the entity has now:
\* WaitForChild returns at once when the child is there, as the lookup with a
\* timeout does once the time is up (timedOut); otherwise the thread yields.
RECURSIVE RunConstructor(_, _, _)
RunConstructor(o, parts, timedOut) ==
    IF o.pc = Constructed THEN o
    ELSE IF Lookups[o.pc].name \in parts THEN RunConstructor(AfterLookup(o, TRUE), parts, FALSE)
    ELSE IF timedOut /\ Lookups[o.pc].timeout > 0 THEN RunConstructor(AfterLookup(o, FALSE), parts, FALSE)
    ELSE o

(***************************************************************************)
(* State.                                                                  *)
(***************************************************************************)
VARIABLES
    players,       \* per player: [status, Character, charConns]
    entities,      \* the characters created so far; an entity's id is its index
    CurrentCamera, \* the script's CurrentCamera (line 80)
    esp,           \* the ESP objects created so far, in order of `new ESP`
    instances,     \* ESP.instances: per entity, the index in esp of its entry, 0 for none
    main,          \* the script's main thread: [pc, snapshot, i, blocked]
    bin,           \* SpecBin: a stand-alone Bin
    binAdds,       \* SpecBin: number of add() calls so far (the next item's id - 1)
    binLog,        \* SpecBin: release actions invoked by the latest destroy()
    binExpected,   \* SpecBin: the items added between the two latest destroy() calls
    binPending,    \* SpecBin: the items added since the latest destroy()
    binCount,      \* SpecBin: per item id, the release invocations so far (saturating)
    frame,         \* the latest run of the RenderStepped handler: [raised, skipped]
    binOp,         \* SpecBin: the latest call and how it ended
    lineCall,      \* SpecLine: one call of updateLineFromPoints: [line, from, to, applied]
    re             \* SpecReenter: a Bin whose callbacks call back into it

binVars == <<bin, binAdds, binLog, binExpected, binPending, binCount, binOp>>

espVars == <<players, entities, CurrentCamera, esp, instances, main>>

unitVars == <<lineCall, re>>

vars == <<espVars, frame, binVars, unitVars>>

(***************************************************************************)
(* The script: event wiring (lines 502-517) and the events of the world.   *)
(***************************************************************************)
LocalPlayer == 0

PlayerIds == 0..MaxPlayers

EntityIds == 1..MaxEntities

\* The children a character has when it spawns: all of them, or all but one
\* that is added later or never (a rig without HumanoidRootPart, a character
\* still loading).
SpawnParts ==
    { PartNames, PartNames \ {"HumanoidRootPart"}, PartNames \ {"Humanoid"},
      PartNames \ {"Left Arm"} }

NewEntity(owner, parts) ==
    [owner |-> owner, inWorld |-> TRUE, parts |-> parts, pos |-> <<0, 0, 0>>,
     pose |-> "rest", Health |-> 100, MaxHealth |-> 100]

\* What the handlers of the script read and write.
Script == [esp |-> esp, instances |-> instances, players |-> players]

\* new ESP(entity) with the registration of line 171 moved to the head of the
\* constructor, before the first lookup.
ConstructRegisteringFirst(st, entity, parts, thread) ==
    LET o == RunConstructor(NewOverlay(entity, thread), parts, FALSE)
        idx == Len(st.esp) + 1
    IN  [st EXCEPT !.esp = Append(@, o), !.instances = [@ EXCEPT ![entity] = idx]]

\* new ESP(entity) on a thread: the constructor runs to its first yield, or
\* to its end, where line 171 has registered the overlay.
Construct(st, entity, parts, thread) ==
    LET o == RunConstructor(NewOverlay(entity, thread), parts, FALSE)
        idx == Len(st.esp) + 1
    IN  [st EXCEPT !.esp = Append(@, o),
                   !.instances = IF o.pc = Constructed THEN [@ EXCEPT ![entity] = idx] ELSE @]

\* The constructor of esp[idx] resumed after a yield.
Continue(st, idx, timedOut) ==
    LET o == RunConstructor(st.esp[idx], entities[st.esp[idx].instance].parts, timedOut)
    IN  [st EXCEPT !.esp[idx] = o,
                   !.instances = IF o.pc = Constructed THEN [@ EXCEPT ![o.instance] = idx] ELSE @]

\* this.destroy() of esp[idx]: the bin's callback deletes the entry of the
\* overlay's entity from ESP.instances.
DestroyOverlay(st, idx) ==
    LET r == BinDestroy(st.esp[idx].bin) IN
    [st EXCEPT !.esp[idx] = destroy(st.esp[idx]),
               !.instances = IF DeleteCalled(r.log)
                             THEN [@ EXCEPT ![st.esp[idx].instance] = 0] ELSE @]

\* The AncestryChanged handlers (line 173) of every overlay connected to the
\* entity, run with parent === undefined, in order of connection.
RECURSIVE FireAncestryChanged(_, _, _)
FireAncestryChanged(st, entity, idx) ==
    IF idx > Len(st.esp) THEN st
    ELSE IF st.esp[idx].instance = entity /\ st.esp[idx].connected
         THEN FireAncestryChanged(DestroyOverlay(st, idx), entity, idx + 1)
         ELSE FireAncestryChanged(st, entity, idx + 1)

\* The handlers of player.CharacterAdded (lines 505, 510), one per connection.
RECURSIVE FireCharacterAdded(_, _, _, _)
FireCharacterAdded(st, entity, parts, n) ==
    IF n = 0 THEN st
    ELSE FireCharacterAdded(Construct(st, entity, parts, "handler"), entity, parts, n - 1)

\* Players.GetPlayers(): the players in the game, as an array.
RECURSIVE PlayersFrom(_, _)
PlayersFrom(pl, p) ==
    IF p > MaxPlayers THEN <<>>
    ELSE (IF pl[p].status = "present" THEN <<p>> ELSE <<>>) \o PlayersFrom(pl, p + 1)

GetPlayers(pl) == PlayersFrom(pl, 0)

\* The loop of line 508 reading Players.GetPlayers() anew at each iteration.
LoopPlayersLive(snapshot, pl) == GetPlayers(pl)

\* The array the loop of line 508 iterates: `for ... of` evaluates
\* Players.GetPlayers() once, before the first iteration.
LoopPlayers(snapshot, pl) == snapshot

\* The loop of lines 508-512 from its i-th iteration, until an iteration's
\* `new ESP` yields (blocked: the overlay under construction) or the loop ends.
RECURSIVE RunLoop(_, _, _)
RunLoop(st, snapshot, i) ==
    LET list == LoopPlayers(snapshot, st.players) IN
    IF i > Len(list) THEN [st |-> st, i |-> i, blocked |-> 0]
    ELSE LET player == list[i] IN
         IF player = LocalPlayer THEN RunLoop(st, snapshot, i + 1)
         ELSE LET connected == [st EXCEPT !.players[player].charConns = @ + 1]
                  character == st.players[player].Character
              IN  IF character = 0 THEN RunLoop(connected, snapshot, i + 1)
                  ELSE LET built == Construct(connected, character, entities[character].parts, "main")
                           idx == Len(built.esp)
                       IN  IF built.esp[idx].pc = Constructed
                           THEN RunLoop(built, snapshot, i + 1)
                           ELSE [st |-> built, i |-> i, blocked |-> idx]

\* The main thread after the loop: RenderStepped is connected (line 515) only
\* when the loop has ended.
MainAfter(r, snapshot) ==
    [pc |-> IF r.blocked = 0 THEN "done" ELSE "loop", snapshot |-> snapshot,
     i |-> r.i, blocked |-> r.blocked]

Commit(st) ==
    /\ esp' = st.esp
    /\ instances' = st.instances
    /\ players' = st.players

PlayerAddedConnected == main.pc # "start"

RenderSteppedConnected == main.pc = "done"

\* The overlay esp[idx] is suspended in a lookup.
Suspended(idx) == esp[idx].pc # Constructed

\* A suspended lookup can return: the child is there, or its time is up.
TimeUp(idx) ==
    /\ Lookups[esp[idx].pc].timeout > 0
    /\ esp[idx].waited >= Lookups[esp[idx].pc].timeout

ChildThere(idx) == Lookups[esp[idx].pc].name \in entities[esp[idx].instance].parts

\* The script starts (lines 502-517): PlayerAdded is connected, the players
\* in the game are enumerated, and RenderStepped is connected after the loop.
Startup ==
    /\ main.pc = "start"
    /\ LET snapshot == GetPlayers(players)
           r == RunLoop(Script, snapshot, 1)
       IN  /\ Commit(r.st)
           /\ main' = MainAfter(r, snapshot)
    /\ UNCHANGED <<entities, CurrentCamera>>

\* The constructor the main thread is blocked in resumes, and the loop goes
\* on when it returns.
ResumeMain ==
    /\ main.pc = "loop"
    /\ ChildThere(main.blocked) \/ TimeUp(main.blocked)
    /\ LET st == Continue(Script, main.blocked, TimeUp(main.blocked)) IN
         IF st.esp[main.blocked].pc = Constructed
         THEN LET r == RunLoop(st, main.snapshot, main.i + 1) IN
                /\ Commit(r.st)
                /\ main' = MainAfter(r, main.snapshot)
         ELSE /\ Commit(st)
              /\ UNCHANGED main
    /\ UNCHANGED <<entities, CurrentCamera>>

\* A constructor started by a signal handler resumes.
ResumeHandler(idx) ==
    /\ esp[idx].thread = "handler"
    /\ Suspended(idx)
    /\ ChildThere(idx) \/ TimeUp(idx)
    /\ Commit(Continue(Script, idx, TimeUp(idx)))
    /\ UNCHANGED <<entities, CurrentCamera, main>>

\* Time passes for every suspended lookup, DiscoveryTimeout seconds at a
\* time; a lookup whose time is up returns before more time passes. Waits
\* longer than the timeout are recorded as DiscoveryTimeout + 1.
Clock ==
    /\ \E idx \in DOMAIN esp : Suspended(idx) /\ esp[idx].waited <= DiscoveryTimeout
    /\ \A idx \in DOMAIN esp : ~(Suspended(idx) /\ TimeUp(idx))
    /\ esp' = [idx \in DOMAIN esp |->
                 IF Suspended(idx) /\ esp[idx].waited <= DiscoveryTimeout
                 THEN [esp[idx] EXCEPT !.waited = IF @ = 0 THEN DiscoveryTimeout
                                                  ELSE DiscoveryTimeout + 1]
                 ELSE esp[idx]]
    /\ UNCHANGED <<players, entities, CurrentCamera, instances, main>>

\* A player joins, with or without a character: Players.PlayerAdded (lines
\* 504-507).
PlayerAdded(p, parts, withCharacter) ==
    /\ PlayerAddedConnected
    /\ p # LocalPlayer
    /\ players[p].status = "absent"
    /\ withCharacter => Len(entities) < MaxEntities
    /\ LET e == Len(entities) + 1
           joined == [Script EXCEPT !.players[p].status = "present",
                                    !.players[p].Character = IF withCharacter THEN e ELSE 0]
           connected == [joined EXCEPT !.players[p].charConns = @ + 1]
       IN  /\ entities' = IF withCharacter THEN Append(entities, NewEntity(p, parts)) ELSE entities
           /\ Commit(IF withCharacter THEN Construct(connected, e, parts, "handler") ELSE connected)
    /\ UNCHANGED <<CurrentCamera, main>>

\* A player's character spawns: player.CharacterAdded fires (lines 505, 510).
CharacterAdded(p, parts) ==
    /\ main.pc # "start"
    /\ players[p].status = "present"
    /\ players[p].Character = 0
    /\ Len(entities) < MaxEntities
    /\ LET e == Len(entities) + 1
           spawned == [Script EXCEPT !.players[p].Character = e]
       IN  /\ entities' = Append(entities, NewEntity(p, parts))
           /\ Commit(FireCharacterAdded(spawned, e, parts, players[p].charConns))
    /\ UNCHANGED <<CurrentCamera, main>>

\* A child is added to a character in the world.
ChildAdded(e, part) ==
    /\ e \in DOMAIN entities
    /\ entities[e].inWorld
    /\ part \notin entities[e].parts
    /\ entities' = [entities EXCEPT ![e].parts = @ \cup {part}]
    /\ UNCHANGED <<players, CurrentCamera, esp, instances, main>>

\* A character is removed from the world (its player died, respawns or
\* left the game): AncestryChanged fires with parent === undefined (line 173).
CharacterRemoved(e) ==
    /\ e \in DOMAIN entities
    /\ entities[e].inWorld
    /\ entities' = [entities EXCEPT ![e].inWorld = FALSE]
    /\ LET owner == entities[e].owner
           gone == [Script EXCEPT !.players[owner].Character = 0]
       IN  Commit(FireAncestryChanged(gone, e, 1))
    /\ UNCHANGED <<CurrentCamera, main>>

\* The removal signal of a character already out of the world fires again
\* (it was moved and removed again): the handlers of line 173 run again.
RemovedAgain(e) ==
    /\ e \in DOMAIN entities
    /\ ~entities[e].inWorld
    /\ \E idx \in DOMAIN esp : esp[idx].instance = e /\ esp[idx].connected
    /\ Commit(FireAncestryChanged(Script, e, 1))
    /\ UNCHANGED <<entities, CurrentCamera, main>>

\* Workspace.CurrentCamera changes (line 502).
CameraChanged(cam) ==
    /\ cam # CurrentCamera
    /\ CurrentCamera' = cam
    /\ UNCHANGED <<players, entities, esp, instances, main>>

\* A character moves.
Moved(e, pos) ==
    /\ e \in DOMAIN entities
    /\ entities[e].pos # pos
    /\ entities' = [entities EXCEPT ![e].pos = pos]
    /\ UNCHANGED <<players, CurrentCamera, esp, instances, main>>

\* A character's animation displaces its limbs.
Animated(e, pose) ==
    /\ e \in DOMAIN entities
    /\ entities[e].pose # pose
    /\ entities' = [entities EXCEPT ![e].pose = pose]
    /\ UNCHANGED <<players, CurrentCamera, esp, instances, main>>

\* A character's Humanoid.Health changes.
HealthChanged(e, health) ==
    /\ e \in DOMAIN entities
    /\ entities[e].Health # health
    /\ entities' = [entities EXCEPT ![e].Health = health]
    /\ UNCHANGED <<players, CurrentCamera, esp, instances, main>>

\* The overlays that have an entry in ESP.instances.
Registered == {idx \in DOMAIN esp : \E e \in EntityIds : instances[e] = idx}

\* The orders in which `for (const [_, instance] of instances)` can visit
\* the entries: the iteration order of a map keyed by Instances is not fixed.
Orders(S) ==
    {order \in [1..Cardinality(S) -> S] :
        \A j, k \in 1..Cardinality(S) : order[j] = order[k] => j = k}

\* render() raises: Workspace.CurrentCamera was undefined when the handler
\* of line 502 read it (the `!` asserts it is not), so line 398 indexes nil
\* before render() has changed anything.
renderRaises(cam) == cam = "none"

\* The loop of line 516 from the k-th entry of the order. The handler has no
\* error handling: a render() that raises ends the loop and the handler.
RECURSIVE RenderAll(_, _, _, _)
RenderAll(es, order, k, cam) ==
    IF k > Len(order) THEN es
    ELSE IF renderRaises(cam) THEN es
    ELSE RenderAll([es EXCEPT ![order[k]] = render(es[order[k]], entities[es[order[k]].humanoid], cam)],
                   order, k + 1, cam)

\* The overlays render() is invoked on by the loop of line 516, from the
\* k-th entry of the order.
RECURSIVE Invoked(_, _, _)
Invoked(order, k, cam) ==
    IF k > Len(order) THEN {}
    ELSE IF renderRaises(cam) THEN {order[k]}
    ELSE {order[k]} \cup Invoked(order, k + 1, cam)

\* A frame is rendered, the entries visited in the given order. frame
\* records whether the handler ended by an error, and the entries render()
\* was not invoked on.
RenderSteppedIn(order) ==
    /\ RenderSteppedConnected
    /\ UNCHANGED <<players, entities, CurrentCamera, instances, main>>
    /\ esp' = RenderAll(esp, order, 1, CurrentCamera)
    /\ frame' = [raised |-> order # <<>> /\ renderRaises(CurrentCamera),
                 skipped |-> Registered \ Invoked(order, 1, CurrentCamera)]

\* A frame is rendered: the RenderStepped handler (lines 515-517) calls
\* render() on the entries of ESP.instances.
RenderStepped == \E order \in Orders(Registered) : RenderSteppedIn(order)

\* The state when the script starts: the viewer and some other players are
\* in the game, some of them with a character.
EspInit ==
    /\ \E present \in SUBSET (1..MaxPlayers) :
       \E withChar \in SUBSET (present \cup {LocalPlayer}) :
         /\ Cardinality(withChar) <= MaxEntities
         /\ \E rig \in [withChar -> SpawnParts] :
              LET order == PlayersFrom([p \in PlayerIds |->
                                          [status |-> IF p \in withChar THEN "present" ELSE "absent"]], 0)
                  at(p) == CHOOSE k \in DOMAIN order : order[k] = p
              IN  /\ entities = [k \in DOMAIN order |-> NewEntity(order[k], rig[order[k]])]
                  /\ players = [p \in PlayerIds |->
                       [status |-> IF p = LocalPlayer \/ p \in present THEN "present" ELSE "absent",
                        Character |-> IF p \in withChar THEN at(p) ELSE 0,
                        charConns |-> 0]]
    /\ CurrentCamera = "front"
    /\ esp = <<>>
    /\ instances = [e \in EntityIds |-> 0]
    /\ main = [pc |-> "start", snapshot |-> <<>>, i |-> 0, blocked |-> 0]
    /\ frame = [raised |-> FALSE, skipped |-> {}]

\* The overlay variables of a specification that does not use them.
EspIdle ==
    /\ players = [p \in PlayerIds |-> [status |-> "absent", Character |-> 0, charConns |-> 0]]
    /\ entities = <<>>
    /\ CurrentCamera = "front"
    /\ esp = <<>>
    /\ instances = [e \in EntityIds |-> 0]
    /\ main = [pc |-> "start", snapshot |-> <<>>, i |-> 0, blocked |-> 0]
    /\ frame = [raised |-> FALSE, skipped |-> {}]

\* The variables of SpecLine and SpecReenter in a specification that does
\* not use them.
UnitIdle ==
    /\ lineCall = [line |-> NewFrame, from |-> <<0, 0>>, to |-> <<0, 0>>, applied |-> FALSE]
    /\ re = ReentrantNew

(***************************************************************************)
(* SpecBin: any sequence of add() and destroy() calls on one Bin.          *)
(***************************************************************************)
BinIds == 1..MaxAdds

BinInit ==
    /\ bin = <<>>
    /\ binAdds = 0
    /\ binLog = <<>>
    /\ binExpected = <<>>
    /\ binPending = <<>>
    /\ binCount = [i \in BinIds |-> 0]
    /\ binOp = [op |-> "new", raised |-> FALSE, twice |-> FALSE]

\* The release counters saturate at 2 ("more than once").
Saturate(n) == IF n > 2 THEN 2 ELSE n

\* Disconnect() never raises; a callback, task.cancel or a destroy method may.
CanRaise(shape) == shape.type # "RBXScriptConnection"

\* bin.add(item)
Add(shape, fails) ==
    /\ binAdds < MaxAdds
    /\ fails => CanRaise(shape)
    /\ LET item == MkItem(binAdds + 1, shape, fails) IN
         /\ bin' = BinAdd(bin, item)
         /\ binPending' = Append(binPending, item)
    /\ binAdds' = binAdds + 1
    /\ binOp' = [op |-> "add", raised |-> FALSE, twice |-> FALSE]
    /\ UNCHANGED <<binLog, binExpected, binCount>>

\* bin.destroy()
Destroy ==
    LET r == BinDestroy(bin) IN
    /\ bin' = r.bin
    /\ binLog' = r.log
    /\ binExpected' = binPending
    /\ binPending' = <<>>
    /\ binCount' = [i \in BinIds |->
                      Saturate(binCount[i] + Cardinality({k \in DOMAIN r.log : r.log[k].id = i}))]
    /\ binOp' = [op |-> "destroy", raised |-> r.raised, twice |-> binOp.op = "destroy"]
    /\ UNCHANGED binAdds

BinNext ==
    \/ \E shape \in ItemShapes, fails \in BOOLEAN : Add(shape, fails) /\ UNCHANGED <<espVars, frame, unitVars>>
    \/ Destroy /\ UNCHANGED <<espVars, frame, unitVars>>

BinStart == BinInit /\ EspIdle /\ UnitIdle

SpecBin == BinStart /\ [][BinNext]_vars

(***************************************************************************)
(* Spec: the script from its start, with players joining and leaving,      *)
(* characters spawning, loading and being removed, and frames rendered.    *)
(***************************************************************************)
Init == EspInit /\ BinInit /\ UnitIdle

Next ==
    \/ Startup /\ UNCHANGED <<frame, binVars, unitVars>>
    \/ ResumeMain /\ UNCHANGED <<frame, binVars, unitVars>>
    \/ \E idx \in DOMAIN esp : ResumeHandler(idx) /\ UNCHANGED <<frame, binVars, unitVars>>
    \/ Clock /\ UNCHANGED <<frame, binVars, unitVars>>
    \/ \E p \in PlayerIds, parts \in SpawnParts, c \in BOOLEAN :
          PlayerAdded(p, parts, c) /\ UNCHANGED <<frame, binVars, unitVars>>
    \/ \E p \in PlayerIds, parts \in SpawnParts : CharacterAdded(p, parts) /\ UNCHANGED <<frame, binVars, unitVars>>
    \/ \E e \in EntityIds, part \in PartNames : ChildAdded(e, part) /\ UNCHANGED <<frame, binVars, unitVars>>
    \/ \E e \in EntityIds : CharacterRemoved(e) /\ UNCHANGED <<frame, binVars, unitVars>>
    \/ \E e \in EntityIds : RemovedAgain(e) /\ UNCHANGED <<frame, binVars, unitVars>>
    \/ \E cam \in {"front", "back"} : CameraChanged(cam) /\ UNCHANGED <<frame, binVars, unitVars>>
    \/ RenderStepped /\ UNCHANGED <<binVars, unitVars>>

Spec == Init /\ [][Next]_vars

(***************************************************************************)
(* SpecRender: one character with its overlay constructed by the start-up  *)
(* loop, seen by a camera that changes while the character moves.          *)
(***************************************************************************)
EntityPositions == {<<0, 0, 0>>, <<0, 0, 27>>, <<0, 0, -100>>, <<30, -60, 0>>}

HealthValues == {0, 29, 50, 100}

RenderInit ==
    /\ \E parts \in {PartNames, PartNames \ {"HumanoidRootPart"}} :
         LET yielded == RunConstructor(NewOverlay(1, "main"), parts, FALSE)
             o == RunConstructor(yielded, parts, TRUE)
         IN
         /\ entities = <<NewEntity(1, parts)>>
         /\ esp = <<o>>
    /\ players = [p \in PlayerIds |->
                    [status |-> IF p <= 1 THEN "present" ELSE "absent",
                     Character |-> IF p = 1 THEN 1 ELSE 0,
                     charConns |-> IF p = 1 THEN 1 ELSE 0]]
    /\ CurrentCamera = "front"
    /\ instances = [e \in EntityIds |-> IF e = 1 THEN 1 ELSE 0]
    /\ main = [pc |-> "done", snapshot |-> <<0, 1>>, i |-> 3, blocked |-> 0]
    /\ frame = [raised |-> FALSE, skipped |-> {}]

RenderNext ==
    \/ \E cam \in CameraNames : CameraChanged(cam) /\ UNCHANGED <<frame, binVars, unitVars>>
    \/ \E pos \in EntityPositions : Moved(1, pos) /\ UNCHANGED <<frame, binVars, unitVars>>
    \/ \E pose \in Poses : Animated(1, pose) /\ UNCHANGED <<frame, binVars, unitVars>>
    \/ \E health \in HealthValues : HealthChanged(1, health) /\ UNCHANGED <<frame, binVars, unitVars>>
    \/ RenderStepped /\ UNCHANGED <<binVars, unitVars>>

RenderStart == RenderInit /\ BinInit /\ UnitIdle

SpecRender == RenderStart /\ [][RenderNext]_vars

(***************************************************************************)
(* SpecReenter: add() and destroy() calls on a Bin of callbacks that may   *)
(* call back into it.                                                      *)
(***************************************************************************)
\* bin.add(callback), from outside a destroy()
AddCallback(reenter) ==
    /\ Len(re.nodes) < MaxAdds
    /\ re' = [ReentrantAdd(re, reenter) EXCEPT !.op = "add"]
    /\ UNCHANGED lineCall

\* bin.destroy(), from outside a destroy()
DestroyCallbacks ==
    /\ re' = [ReentrantDestroy([re EXCEPT !.log = <<>>]) EXCEPT !.op = "destroy"]
    /\ UNCHANGED lineCall

ReenterInit ==
    /\ re = ReentrantNew
    /\ lineCall = [line |-> NewFrame, from |-> <<0, 0>>, to |-> <<0, 0>>, applied |-> FALSE]

ReenterNext ==
    \/ \E reenter \in Reentries : AddCallback(reenter) /\ UNCHANGED <<espVars, frame, binVars>>
    \/ DestroyCallbacks /\ UNCHANGED <<espVars, frame, binVars>>

ReenterStart == ReenterInit /\ EspIdle /\ BinInit

SpecReenter == ReenterStart /\ [][ReenterNext]_vars

(***************************************************************************)
(* SpecLine: updateLineFromPoints called on a line Frame with any two      *)
(* screen points. Coordinates are in half pixels, so that the midpoint of  *)
(* two pixels is exact.                                                    *)
(***************************************************************************)
ScreenCoordinates == {-8, -6, 0, 6, 8}

ScreenPoints == ScreenCoordinates \X ScreenCoordinates

\* The thickness update() gives a box line and a bone line (lines 363, 367).
Thicknesses == {1, 2}

\* A line Frame and the two points of the next call.
Aim(from, to, thickness) ==
    /\ lineCall' = [line |-> [NewLine EXCEPT !.Size = <<1, thickness>>],
                    from |-> from, to |-> to, applied |-> FALSE]
    /\ UNCHANGED re

\* updateLineFromPoints(line, from, to)
Lay ==
    /\ ~lineCall.applied
    /\ lineCall' = [lineCall EXCEPT
                      !.line = updateLineFromPoints(lineCall.line, lineCall.from, lineCall.to),
                      !.applied = TRUE]
    /\ UNCHANGED re

LineInit ==
    /\ \E from \in ScreenPoints, to \in ScreenPoints, thickness \in Thicknesses :
          lineCall = [line |-> [NewLine EXCEPT !.Size = <<1, thickness>>],
                      from |-> from, to |-> to, applied |-> FALSE]
    /\ re = ReentrantNew

LineNext ==
    \/ \E from \in ScreenPoints, to \in ScreenPoints, thickness \in Thicknesses :
          Aim(from, to, thickness) /\ UNCHANGED <<espVars, frame, binVars>>
    \/ Lay /\ UNCHANGED <<espVars, frame, binVars>>

LineStart == LineInit /\ EspIdle /\ BinInit

SpecLine == LineStart /\ [][LineNext]_vars

(***************************************************************************)
(* SpecTick: two characters whose overlays the start-up loop constructed,  *)
(* rendered frame after frame while the camera changes, is replaced or is  *)
(* missing, and the characters move.                                       *)
(***************************************************************************)
TickInit ==
    /\ entities = [e \in 1..2 |-> NewEntity(e, PartNames)]
    /\ esp = [e \in 1..2 |-> RunConstructor(NewOverlay(e, "main"), PartNames, FALSE)]
    /\ players = [p \in PlayerIds |->
                    [status |-> IF p <= 2 THEN "present" ELSE "absent",
                     Character |-> IF p \in 1..2 THEN p ELSE 0,
                     charConns |-> IF p \in 1..2 THEN 1 ELSE 0]]
    /\ CurrentCamera = "front"
    /\ instances = [e \in EntityIds |-> IF e <= 2 THEN e ELSE 0]
    /\ main = [pc |-> "done", snapshot |-> <<0, 1, 2>>, i |-> 4, blocked |-> 0]
    /\ frame = [raised |-> FALSE, skipped |-> {}]

TickNext ==
    \/ \E cam \in {"front", "back", "none"} : CameraChanged(cam) /\ UNCHANGED <<frame, binVars, unitVars>>
    \/ \E e \in 1..2, pos \in {<<0, 0, 0>>, <<0, 0, -200>>} :
          Moved(e, pos) /\ UNCHANGED <<frame, binVars, unitVars>>
    \/ \E e \in 1..2 : CharacterRemoved(e) /\ UNCHANGED <<frame, binVars, unitVars>>
    \/ RenderStepped /\ UNCHANGED <<binVars, unitVars>>

TickStart == TickInit /\ BinInit /\ UnitIdle

SpecTick == TickStart /\ [][TickNext]_vars

(***************************************************************************)
(* Properties of render().                                                 *)
(***************************************************************************)
\* The overlay registered for entity e.
OverlayOf(e) == esp[instances[e]]

\* Some of the 18 rig points of overlay o (the 7 box points, B among them,
\* and the 11 joints) has a negative projected depth in the current state.
AnyRigPointBehind(o) ==
    \E n \in PointNames \cup BoneNames :
        WorldToViewportPoint(CurrentCamera, WorldPosition(o, entities[o.instance], n))[3] < 0

\* The geometry and text fields render() writes.
Geometry(o) ==
    <<[i \in 1..4 |-> <<o.box_lines[i].Position, o.box_lines[i].Size, o.box_lines[i].Rotation>>],
      [i \in 1..10 |-> <<o.bone_lines[i].Position, o.bone_lines[i].Size, o.bone_lines[i].Rotation>>],
      o.container.Position, o.dataText>>

AllHidden(o) ==
    /\ ~o.container.Visible
    /\ \A i \in 1..4 : ~o.box_lines[i].Visible
    /\ \A i \in 1..10 : ~o.bone_lines[i].Visible

AllVisible(o) ==
    /\ o.container.Visible
    /\ \A i \in 1..4 : o.box_lines[i].Visible
    /\ \A i \in 1..10 : o.bone_lines[i].Visible

\* C4: a frame in which any of the 18 rig points of a registered overlay has
\* projected depth < 0 leaves the overlay's 14 lines and its label container
\* invisible, and changes none of their positions, lengths, rotations or the
\* stats text. B is not projected by render(), but it is the midpoint of BL
\* and BR and depth is linear in position, so B is behind the camera only
\* when BL or BR is.
C4_CulledFrameHidesAll ==
    [][RenderStepped =>
         \A e \in EntityIds :
            (instances[e] # 0 /\ AnyRigPointBehind(OverlayOf(e)))
               => /\ AllHidden(esp'[instances[e]])
                  /\ Geometry(esp'[instances[e]]) = Geometry(OverlayOf(e))]_vars

\* C4, witness: an overlay drawn in an earlier frame (its first box line has
\* a length) is hidden while only a joint, and no box point, is behind the
\* camera.
C4_Witness ==
    /\ instances[1] # 0
    /\ AllHidden(OverlayOf(1))
    /\ OverlayOf(1).box_lines[1].Size[1] > 1
    /\ AnyRigPointBehind(OverlayOf(1))
    /\ ~BehindCameraBoxOnly(OverlayOf(1), entities[1], CurrentCamera)

(***************************************************************************)
(* Properties of the Bin.                                                  *)
(***************************************************************************)
\* The release action the kind of an item calls for.
KindAction(item) ==
    CASE item.type = "function" -> {"call"}
      [] item.type = "RBXScriptConnection" -> {"Disconnect"}
      [] item.type = "thread" -> {"task.cancel"}
      [] OTHER -> {"destroy", "Destroy"}

\* C5: each destroy() releases exactly the items added since the previous
\* destroy(), each exactly once and in insertion order, by the release action
\* of the item's kind, and leaves the Bin empty.
C5_DestroyReleasesPendingInOrder ==
    binOp.op = "destroy" =>
        /\ BinIsEmpty(bin)
        /\ Len(binLog) = Len(binExpected)
        /\ \A k \in DOMAIN binLog :
              /\ k <= Len(binExpected)
              /\ binLog[k].id = binExpected[k].id
              /\ binLog[k].action \in KindAction(binExpected[k])
              /\ ~binLog[k].raised
        /\ \A i \in BinIds : binCount[i] <= 1

\* C6: a destroy() that follows a destroy() invokes no release action;
\* isEmpty() is true after destroy() and false after an add().
C6_DestroyIdempotent ==
    /\ binOp.op = "destroy" => BinIsEmpty(bin)
    /\ (binOp.op = "destroy" /\ binOp.twice) => binLog = <<>>
    /\ binOp.op = "add" => ~BinIsEmpty(bin)

\* C7: when a release action raises during destroy(), destroy() still
\* releases every entry after it, ends without an error and leaves the Bin
\* empty.
C7_FailureSwallowed ==
    (binOp.op = "destroy" /\ \E k \in DOMAIN binLog : binLog[k].raised) =>
        /\ ~binOp.raised
        /\ BinIsEmpty(bin)
        /\ \A j \in DOMAIN binExpected :
              \E k \in DOMAIN binLog : binLog[k].id = binExpected[j].id

(***************************************************************************)
(* Properties of the overlay lifecycle.                                    *)
(***************************************************************************)
Frames(o) ==
    {o.container} \cup {o.box_lines[i] : i \in DOMAIN o.box_lines}
                  \cup {o.bone_lines[i] : i \in DOMAIN o.bone_lines}

\* The constructor of o has returned and o has not been destroyed.
Live(o) == o.pc = Constructed /\ ~BinIsEmpty(o.bin)

\* The constructor of o has returned and o.destroy() has run.
Destroyed(o) == o.pc = Constructed /\ BinIsEmpty(o.bin)

\* Each of the 4 box lines, 10 bone lines and the label container of o has
\* been released exactly once.
ReleasedOnce(o) ==
    /\ Len(o.box_lines) = 4 /\ Len(o.bone_lines) = 10
    /\ \A f \in Frames(o) : f.destroyed = 1 /\ f.Parent = "nil"

\* C1: when an entity whose overlay is Active (constructed, registered, not
\* destroyed) is removed from the world, each of the overlay's 4 box lines,
\* 10 bone lines and its label container is released exactly once and the
\* entity's entry leaves ESP.instances; a removal signal that fires again for
\* a destroyed overlay releases nothing and changes neither the overlay nor
\* ESP.instances.
C1_RemovalDestroysOnce ==
    [][\A idx \in DOMAIN esp :
          LET o == esp[idx]
              e == o.instance
          IN  /\ (Live(o) /\ instances[e] = idx /\ CharacterRemoved(e))
                    => /\ ReleasedOnce(esp'[idx])
                       /\ Destroyed(esp'[idx])
                       /\ instances'[e] = 0
              /\ (Destroyed(o) /\ RemovedAgain(e))
                    => /\ esp'[idx] = o
                       /\ ~BinDestroy(o.bin).raised
                       /\ instances' = instances]_vars

\* C1, witness: a removed entity whose overlay was rendered visible, then
\* destroyed with every primitive released once, and whose entry is gone.
C1_Witness ==
    \E idx \in DOMAIN esp :
        /\ Destroyed(esp[idx])
        /\ ReleasedOnce(esp[idx])
        /\ esp[idx].box_lines[1].Size[1] > 1
        /\ ~entities[esp[idx].instance].inWorld
        /\ instances[esp[idx].instance] = 0

\* Entities of players other than the viewer.
NonViewer(e) == entities[e].owner # LocalPlayer

\* The constructor has returned for some overlay of e.
HasConstructed(e) == \E idx \in DOMAIN esp : esp[idx].instance = e /\ esp[idx].pc = Constructed

\* C2: ESP.instances holds an entry for an entity if and only if the entity
\* is a non-viewer character that is in the world and tracked (here: its
\* overlay's construction has completed), so that the entries are as many as
\* those entities.
C2_RegistryMatchesTracked ==
    /\ \A e \in DOMAIN entities :
          instances[e] # 0 <=> (entities[e].inWorld /\ NonViewer(e) /\ HasConstructed(e))
    /\ Cardinality({e \in EntityIds : instances[e] # 0})
          = Cardinality({e \in DOMAIN entities :
                            entities[e].inWorld /\ NonViewer(e) /\ HasConstructed(e)})

\* C3: an entity that has been removed from the world has no entry in
\* ESP.instances (so that the frame tick calls render() for it no more),
\* whatever its overlay's constructor was doing when it was removed.
C3_RemovedEntityHasNoEntry ==
    \A e \in DOMAIN entities : ~entities[e].inWorld => instances[e] = 0

\* C8: while the construction of an overlay is suspended in a body-part
\* lookup, the RenderStepped handler is connected (so that the registered
\* overlays are rendered), and every other player's character that is in the
\* world has had its overlay's construction started.
C8_SuspensionBlocksNobody ==
    (main.pc # "start" /\ \E idx \in DOMAIN esp : Suspended(idx)) =>
        /\ RenderSteppedConnected
        /\ \A p \in 1..MaxPlayers :
              (players[p].status = "present" /\ players[p].Character # 0)
                 => \E idx \in DOMAIN esp : esp[idx].instance = players[p].Character

\* C9: every body-part lookup of the constructor waits at most the discovery
\* timeout: no construction stays suspended in one lookup for longer.
C9_LookupsBounded ==
    \A idx \in DOMAIN esp : Suspended(idx) => esp[idx].waited <= DiscoveryTimeout

\* C10: no entity has more than one live (constructed and not destroyed)
\* overlay.
C10_OneLiveOverlayPerEntity ==
    \A e \in DOMAIN entities :
        Cardinality({idx \in DOMAIN esp : esp[idx].instance = e /\ Live(esp[idx])}) <= 1

\* C10, witness: two entities each have a live, registered overlay, one
\* constructed by the start-up enumeration and one by a signal handler.
C10_Witness ==
    \E i, j \in DOMAIN esp :
        /\ esp[i].instance # esp[j].instance
        /\ Live(esp[i]) /\ esp[i].thread = "main"
        /\ Live(esp[j]) /\ esp[j].thread = "handler"
        /\ instances[esp[i].instance] = i
        /\ instances[esp[j].instance] = j

(***************************************************************************)
(* Properties of the frame tick.                                           *)
(***************************************************************************)
\* C11: when render() raises for one overlay during a frame tick, render()
\* is still invoked in that tick on every other overlay that has an entry in
\* ESP.instances.
C11_RenderFaultIsolated == frame.raised => frame.skipped = {}

(***************************************************************************)
(* Properties of the geometry and the label.                               *)
(***************************************************************************)
\* The projected depth of the box centre C of overlay o, in tenths of a stud.
DepthOfCentre(o) ==
    Dot(Cameras[CurrentCamera].look,
        VSub(PartPosition(entities[o.instance], o.root), Cameras[CurrentCamera].pos))

\* C12: after a render() in which every projected depth is >= 0, the stats
\* line reads "[d] [h/m] [p%]" with d the floor of the projected depth of C,
\* h and m the humanoid's Health and MaxHealth, and p = floor(h / m * 100).
C12_StatsText ==
    [][RenderStepped =>
         \A e \in EntityIds :
            (instances[e] # 0 /\ ~AnyRigPointBehind(OverlayOf(e)) /\ entities[e].MaxHealth > 0)
               => esp'[instances[e]].dataText =
                     StatsText(DepthOfCentre(OverlayOf(e)) \div 10,
                               entities[e].Health, entities[e].MaxHealth,
                               (100 * entities[e].Health) \div entities[e].MaxHealth)]_vars

\* The example of C12: health 50/100 at depth 12.7 reads "[12] [50/100] [50%]".
C12_Example ==
    \E e \in EntityIds :
        /\ instances[e] # 0
        /\ DepthOfCentre(OverlayOf(e)) = 127
        /\ OverlayOf(e).dataText = StatsText(12, 50, 100, 50)
        /\ AllVisible(OverlayOf(e))

\* Where render() puts the rig point n of overlay o on the screen.
Screen(o, n) ==
    Vector2(WorldToViewportPoint(CurrentCamera, WorldPosition(o, entities[o.instance], n)))

\* The Frame is laid from p to q: centred on their midpoint, as long as
\* their distance (to the unit below), turned to the direction from p to q.
Connects(line, p, q) ==
    LET dx == q[1] - p[1]
        dy == q[2] - p[2]
    IN  /\ 2 * line.Position[1] = p[1] + q[1]
        /\ 2 * line.Position[2] = p[2] + q[2]
        /\ line.Size[1] * line.Size[1] <= dx * dx + dy * dy
        /\ dx * dx + dy * dy < (line.Size[1] + 1) * (line.Size[1] + 1)
        /\ line.Rotation = Atan2Deg(dy, dx)

\* The corners of the box in the cyclic order top-left, top-right,
\* bottom-right, bottom-left.
Corners == <<"TL", "TR", "BR", "BL">>

\* C13: whenever render() updates geometry, box line i (of 0..3) runs from
\* the i-th corner of the cycle TL, TR, BR, BL to the next one, the last
\* back to TL, for every camera orientation.
C13_BoxCycle ==
    [][RenderStepped =>
         \A e \in EntityIds :
            (instances[e] # 0 /\ ~AnyRigPointBehind(OverlayOf(e)))
               => \A i \in 1..4 :
                     Connects(esp'[instances[e]].box_lines[i],
                              Screen(OverlayOf(e), Corners[i]),
                              Screen(OverlayOf(e), Corners[(i % 4) + 1]))]_vars

\* C13, witness: an overlay drawn as seen from above: the top and bottom
\* edges have a length and run in opposite directions, the side edges have
\* none.
C13_Witness ==
    /\ instances[1] # 0
    /\ CurrentCamera = "above"
    /\ AllVisible(OverlayOf(1))
    /\ \A i \in 1..4 :
          Connects(OverlayOf(1).box_lines[i], Screen(OverlayOf(1), Corners[i]),
                   Screen(OverlayOf(1), Corners[(i % 4) + 1]))
    /\ OverlayOf(1).box_lines[1].Size[1] > 1
    /\ OverlayOf(1).box_lines[1].Rotation # OverlayOf(1).box_lines[3].Rotation
    /\ OverlayOf(1).box_lines[2].Size[1] = 0

\* The joints reached from the joints of S along the edges.
RECURSIVE ReachedFrom(_, _)
ReachedFrom(S, edges) ==
    LET more == S \cup {n \in BoneNames :
                           \E k \in DOMAIN edges :
                              \/ edges[k][1] \in S /\ edges[k][2] = n
                              \/ edges[k][2] \in S /\ edges[k][1] = n}
    IN  IF more = S THEN S ELSE ReachedFrom(more, edges)

\* 10 edges that connect all 11 joints: a spanning tree.
SpanningTree(edges) ==
    /\ Len(edges) = Cardinality(BoneNames) - 1
    /\ ReachedFrom({"neck"}, edges) = BoneNames

\* The joint pairs of the skeleton.
SkeletonPairs ==
    << <<"face", "neck">>, <<"neck", "waist">>,
       <<"neck", "right_shoulder">>, <<"right_shoulder", "right_hand">>,
       <<"waist", "right_hip">>, <<"right_hip", "right_foot">>,
       <<"neck", "left_shoulder">>, <<"left_shoulder", "left_hand">>,
       <<"waist", "left_hip">>, <<"left_hip", "left_foot">> >>

\* C18: whenever render() updates geometry, the 10 bone lines join the pairs
\* face-neck, neck-waist, neck-right_shoulder, right_shoulder-right_hand,
\* waist-right_hip, right_hip-right_foot, neck-left_shoulder,
\* left_shoulder-left_hand, waist-left_hip and left_hip-left_foot, and these
\* pairs form a tree spanning the 11 joints.
C18_SkeletonTree ==
    [][RenderStepped =>
         \A e \in EntityIds :
            (instances[e] # 0 /\ ~AnyRigPointBehind(OverlayOf(e)))
               => /\ \A i \in 1..10 :
                        Connects(esp'[instances[e]].bone_lines[i],
                                 Screen(OverlayOf(e), SkeletonPairs[i][1]),
                                 Screen(OverlayOf(e), SkeletonPairs[i][2]))
                  /\ SpanningTree(SkeletonPairs)
                  /\ {BoneEdges[i] : i \in 1..10} = {SkeletonPairs[i] : i \in 1..10}]_vars

\* C18, witness: an overlay drawn while the right arm and the left leg are
\* swung back, seen from the side: the two arms are drawn differently.
C18_Witness ==
    /\ instances[1] # 0
    /\ CurrentCamera = "side"
    /\ entities[1].pose = "swing"
    /\ AllVisible(OverlayOf(1))
    /\ \A i \in 1..10 :
          Connects(OverlayOf(1).bone_lines[i], Screen(OverlayOf(1), SkeletonPairs[i][1]),
                   Screen(OverlayOf(1), SkeletonPairs[i][2]))
    /\ OverlayOf(1).bone_lines[3].Size[1] # OverlayOf(1).bone_lines[7].Size[1]

(***************************************************************************)
(* Properties of updateLineFromPoints.                                     *)
(***************************************************************************)
\* A vector along the direction of a degrees, for a in 0..180.
Along(a) ==
    IF a < 90 THEN <<10000, TanTable[a + 1]>>
    ELSE IF a = 90 THEN <<0, 1>>
    ELSE IF a < 180 THEN <<-10000, TanTable[180 - a + 1]>>
    ELSE <<-1, 0>>

\* v is at or counter-clockwise of the direction u (within a half turn).
AtOrPast(u, v) == u[1] * v[2] - u[2] * v[1] >= 0

\* r is the angle of the vector <<x, y>> with y >= 0, in whole degrees
\* counted from the x axis: r <= angle < r + 1.
WholeDegrees(r, x, y) ==
    /\ r \in 0..180
    /\ AtOrPast(Along(r), <<x, y>>)
    /\ r < 180 => ~AtOrPast(Along(r + 1), <<x, y>>)

\* r is atan2(y, x) in degrees, cut to whole degrees.
IsAtan2Degrees(r, y, x) ==
    IF x = 0 /\ y = 0 THEN r = 0
    ELSE IF y >= 0 THEN WholeDegrees(r, x, y)
    ELSE WholeDegrees(-r, x, -y)

\* C14: updateLineFromPoints(line, p0, p1) puts the line at the arithmetic
\* mean of p0 and p1, makes it as long as the Euclidean distance |p1 - p0|
\* (to the unit below) and turns it by atan2(p1.y - p0.y, p1.x - p0.x) in
\* degrees (to the whole degree).
C14_LineFromPoints ==
    lineCall.applied =>
        LET p0 == lineCall.from
            p1 == lineCall.to
            line == lineCall.line
            square == (p1[1] - p0[1]) * (p1[1] - p0[1]) + (p1[2] - p0[2]) * (p1[2] - p0[2])
        IN  /\ 2 * line.Position[1] = p0[1] + p1[1]
            /\ 2 * line.Position[2] = p0[2] + p1[2]
            /\ line.Size[1] * line.Size[1] <= square
            /\ square < (line.Size[1] + 1) * (line.Size[1] + 1)
            /\ IsAtan2Degrees(line.Rotation, p1[2] - p0[2], p1[1] - p0[1])

\* C14, witness: the example p0 = (0, 0), p1 = (3, 4), in half pixels:
\* midpoint (1.5, 2), length 5, angle 53.13 degrees.
C14_Witness ==
    /\ lineCall.applied
    /\ lineCall.from = <<0, 0>>
    /\ lineCall.to = <<6, 8>>
    /\ lineCall.line.Position = <<3, 4>>
    /\ lineCall.line.Size[1] = 10
    /\ lineCall.line.Rotation = 53

(***************************************************************************)
(* Properties of visibility.                                               *)
(***************************************************************************)
\* Between events: the lines and the label container of a constructed
\* overlay are all hidden or all visible, an overlay still in its
\* constructor has nothing on the screen, and a frame rendered now would
\* leave each registered overlay visible exactly if none of its rig points
\* has a negative projected depth.
VisibilityBetweenEvents ==
    /\ \A idx \in DOMAIN esp :
          IF esp[idx].pc = Constructed
          THEN AllHidden(esp[idx]) \/ AllVisible(esp[idx])
          ELSE /\ esp[idx].box_lines = <<>>
               /\ esp[idx].bone_lines = <<>>
               /\ esp[idx].container.Parent = "nil"
    /\ RenderSteppedConnected =>
          \A idx \in Registered :
             LET after == render(esp[idx], entities[esp[idx].humanoid], CurrentCamera) IN
             IF AnyRigPointBehind(esp[idx]) THEN AllHidden(after) ELSE AllVisible(after)

\* In a step: an overlay whose constructor returns in the step is hidden,
\* and the visibility of a constructed overlay changes only by a render()
\* of the frame tick, to what the render found.
VisibilityStep ==
    \A idx \in DOMAIN esp' :
        esp'[idx].pc = Constructed =>
            IF idx \in DOMAIN esp /\ esp[idx].pc = Constructed
            THEN AllVisible(esp'[idx]) # AllVisible(esp[idx])
                    => /\ RenderSteppedConnected
                       /\ idx \in Registered
                       /\ AllVisible(esp'[idx]) = ~AnyRigPointBehind(esp[idx])
            ELSE AllHidden(esp'[idx])

\* C15: between events the 14 lines and the label container of an overlay
\* have the same visibility, and they are visible exactly when the
\* overlay's most recent render() found every projected depth >= 0: a new
\* overlay is hidden until such a render, and an overlay hidden by a culled
\* frame is visible again after the next render() whose depths are all >= 0.
C15_VisibleIffLastRenderInFront == []VisibilityBetweenEvents /\ [][VisibilityStep]_vars

\* C15, witness: an overlay that was drawn and then hidden by a culled frame,
\* next to a new overlay no frame has rendered yet.
C15_Witness ==
    \E i, j \in DOMAIN esp :
        /\ esp[i].pc = Constructed /\ esp[j].pc = Constructed
        /\ i \in Registered /\ j \in Registered
        /\ AllHidden(esp[i]) /\ esp[i].box_lines[1].Size[1] > 1
        /\ AnyRigPointBehind(esp[i])
        /\ AllHidden(esp[j]) /\ esp[j].box_lines[1].Size[1] = 1

(***************************************************************************)
(* Properties of the structure: ESP.instances, the Bins, the primitives.   *)
(***************************************************************************)
\* What an overlay is made of, apart from the geometry, the visibility and
\* the text that render() writes: its Bin, its rig, and where its Frames
\* are parented and whether they are destroyed.
Structure(o) ==
    <<o.bin, o.instance, o.humanoid, o.root, o.points, o.bones, o.connected, o.pc,
      [i \in DOMAIN o.box_lines |-> <<o.box_lines[i].Parent, o.box_lines[i].destroyed>>],
      [i \in DOMAIN o.bone_lines |-> <<o.bone_lines[i].Parent, o.bone_lines[i].destroyed>>],
      o.container.Parent, o.container.destroyed>>

\* A render() of a registered overlay now, culled or not, would leave the
\* structure of the overlay as it is.
RenderKeepsStructure ==
    RenderSteppedConnected =>
        \A idx \in Registered :
            Structure(render(esp[idx], entities[esp[idx].humanoid], CurrentCamera))
               = Structure(esp[idx])

\* A frame tick leaves ESP.instances, every Bin and every overlay without
\* an entry as they are; and an entry of ESP.instances changes only when an
\* overlay's constructor registers it or an overlay's destroy() deletes it.
StructuralStep ==
    /\ RenderStepped =>
          /\ instances' = instances
          /\ DOMAIN esp' = DOMAIN esp
          /\ \A idx \in DOMAIN esp :
                /\ Structure(esp'[idx]) = Structure(esp[idx])
                /\ idx \notin Registered => esp'[idx] = esp[idx]
    /\ \A e \in EntityIds :
          instances'[e] # instances[e] =>
             \/ /\ instances[e] = 0
                /\ esp'[instances'[e]].instance = e
                /\ esp'[instances'[e]].pc = Constructed
                /\ instances'[e] \in DOMAIN esp => esp[instances'[e]].pc # Constructed
             \/ /\ instances'[e] = 0
                /\ Live(esp[instances[e]])
                /\ Destroyed(esp'[instances[e]])

\* C16: render() makes no structural change: culled or not, it adds or
\* removes no entry of ESP.instances, adds nothing to and releases nothing
\* from the overlay's Bin, and changes no primitive of another overlay;
\* ESP.instances is changed only by the construction and the destruction of
\* overlays.
C16_RenderIsNotStructural == []RenderKeepsStructure /\ [][StructuralStep]_vars

\* C16, witness: frames have drawn a registered overlay, whose Bin still
\* holds its 16 items, while another overlay is suspended in its
\* constructor.
C16_Witness ==
    \E i, j \in DOMAIN esp :
        /\ i \in Registered
        /\ AllVisible(esp[i]) /\ esp[i].box_lines[1].Size[1] > 1
        /\ Len(esp[i].bin) = 16
        /\ j \notin Registered
        /\ esp[j].pc # Constructed

\* A destroyed overlay has no entry in ESP.instances, so the frame tick does
\* not invoke render() on it.
DestroyedNotRegistered ==
    \A idx \in DOMAIN esp : Destroyed(esp[idx]) => idx \notin Registered

\* No step changes a destroyed overlay: it stays destroyed, and its lines
\* and its label are as destroy() left them.
DestroyedUntouched ==
    \A idx \in DOMAIN esp : Destroyed(esp[idx]) => esp'[idx] = esp[idx]

\* C17: destroyed is terminal: once an overlay has been destroyed, the frame
\* tick never invokes render() on it again and none of its released line or
\* label primitives is changed afterwards.
C17_DestroyedIsTerminal == []DestroyedNotRegistered /\ [][DestroyedUntouched]_vars

\* C17, witness: an overlay destroyed while it was drawn and visible is
\* still so after a later, culled frame has hidden the overlay of another
\* entity.
C17_Witness ==
    \E i, j \in DOMAIN esp :
        /\ Destroyed(esp[i]) /\ ReleasedOnce(esp[i])
        /\ AllVisible(esp[i]) /\ esp[i].box_lines[1].Size[1] > 1
        /\ j \in Registered
        /\ AllHidden(esp[j]) /\ esp[j].box_lines[1].Size[1] > 1
        /\ AnyRigPointBehind(esp[j])

\* The overlay is whole: its constructor has returned, its 7 box points and
\* 11 joints are attached to the character, and its 4 box lines, 10 bone
\* lines and its label exist, sized by update().
FullyConstructed(o) ==
    /\ o.pc = Constructed
    /\ o.humanoid = o.instance
    /\ o.root \in {"HumanoidRootPart", "Torso"}
    /\ \A n \in PointNames : o.points[n].Parent # "nil"
    /\ o.hasBones
    /\ \A n \in BoneNames : o.bones[n].Parent \in PartNames
    /\ Len(o.box_lines) = 4
    /\ Len(o.bone_lines) = 10
    /\ \A f \in Frames(o) : f.Parent = "ScreenGui" /\ f.destroyed = 0
    /\ o.container.Size = <<300, AbsoluteContentSizeY>>

\* C19: every overlay found in ESP.instances is fully constructed: its rig,
\* its 14 lines and its label exist before the entry is inserted, so a frame
\* tick that comes while a constructor is suspended in a body-part lookup
\* never calls render() on a partially constructed overlay.
C19_RegisteredIsWhole ==
    \A idx \in DOMAIN esp :
        /\ idx \in Registered => FullyConstructed(esp[idx])
        /\ esp[idx].pc # Constructed => idx \notin Registered

\* C19, witness: frames are rendered (an overlay is drawn and visible) while
\* the constructor of another overlay is suspended in constructBones, its
\* box points built and its joints not.
C19_Witness ==
    \E i, j \in DOMAIN esp :
        /\ RenderSteppedConnected
        /\ i \in Registered
        /\ AllVisible(esp[i]) /\ esp[i].box_lines[1].Size[1] > 1
        /\ esp[j].pc > 6 /\ esp[j].pc # Constructed
        /\ esp[j].points["C"].Parent # "nil"
        /\ ~esp[j].hasBones
        /\ entities[esp[j].instance].inWorld

(***************************************************************************)
(* Properties of the Bin under re-entrance.                                *)
(***************************************************************************)
\* C20: no Bin item is released more than once, even when a callback item
\* calls destroy() or add() on the same Bin from inside its release action,
\* and the outer destroy() ends with the Bin empty.
C20_ReentrantReleaseOnce ==
    /\ \A k \in DOMAIN re.count : re.count[k] <= 1
    /\ re.op = "destroy" =>
          /\ re.head = 0
          /\ \A k \in DOMAIN re.nodes : re.count[k] = 1

\* The part of C20 about add(): an item added from inside a release action
\* is released once by the destroy() in progress, which ends with the Bin
\* empty.
C20_AddFromCallback ==
    (re.op = "destroy" /\ \A k \in DOMAIN re.nodes : re.nodes[k].reenter # "destroy") =>
        /\ re.head = 0
        /\ \A k \in DOMAIN re.nodes : re.count[k] = 1

====
